---- MODULE Spec2Model ----
(***************************************************************************)
(* Model of the external-metrics reconciliation engine of bingostats.py:   *)
(* name normalisation and aliasing, the retrying Wise Old Man fetcher, the *)
(* metric bundle aggregator with its two time-boxed caches, the snapshot   *)
(* file loader and the spooned-index join.                                 *)
(*                                                                         *)
(* Durations passed to time.sleep are in tenths of a second (1.5 s = 15).  *)
(* The cache clock `now` is in seconds.  Strings that the code inspects    *)
(* character by character (player names) are sequences of one-character    *)
(* strings; floats that hold whole numbers are integers.  In the spooned  *)
(* index, points, KC gains and the index are in thousandths.               *)
(*                                                                         *)
(* SpecFetch: one fetcher call against every kind of response.             *)
(* SpecBundle: bundle calls, their two caches, time passing between calls. *)
(* SpecFile: load calls on every kind of snapshot file.                    *)
(* SpecSpoon: build_spooned_index on the event rows of one category.       *)
(***************************************************************************)
EXTENDS Integers, Sequences, FiniteSets, TLC

VARIABLES
    now,            \* wall clock read by the st.cache_data TTL caches (seconds)
    innerCache,     \* st.cache_data store of _fetch_wom_group_metric_success
    outerCache,     \* st.cache_data store of prefetch_wom_group_metrics_bundle
    pc,             \* position of the prefetch_wom_group_metrics_bundle call
    req,            \* arguments of the current bundle call
    todo,           \* metrics of sorted(set(metrics)) not yet fetched
    kc_by_metric,   \* the bundle under construction / returned
    errors,         \* the error list under construction / returned
    outbound,       \* requests.get calls issued during the current bundle call
    outerHit,       \* the current bundle call was answered by outerCache
    f,              \* the current (or last) fetch_wom_group_metric call
    asked,          \* history: metrics requested from the service in this call
    served,         \* history: metrics answered by innerCache in this call
    innerLog,       \* history: the values _fetch_wom_group_metric_success returned
    log,            \* history: the bundle calls that ended, in order
    file,           \* the snapshot file wom_group_cache.json on disk
    fileCache,      \* st.cache_data store of load_wom_group_metrics_from_file
    load,           \* the last load_wom_group_metrics_from_file call
    loads,          \* history: the number of load calls made
    category_df,    \* the event rows of one category: Player, Points, Date
    selected_boss_metrics,      \* the metrics selected for the category
    prefetched_kc_by_metric,    \* the bundle given to build_spooned_index
    spoon,          \* the last build_spooned_index call
    alias_map,      \* the module's alias table WOM_PLAYER_ALIASES
    raw,            \* a player name as a caller spells it
    norm,           \* the last _normalize_name call on raw
    resolved        \* the last _resolve_csv_player_to_wom_key call on raw

\* the state of the live fetch path
fetchVars == <<innerCache, outerCache, pc, req, todo, kc_by_metric, errors,
               outbound, outerHit, f, asked, served, innerLog, log>>

\* the state of the snapshot file path
fileVars == <<file, fileCache, load, loads>>

\* the state of the reconciliation
spoonVars == <<category_df, selected_boss_metrics, prefetched_kc_by_metric,
               spoon>>

\* the state of the identity normaliser
nameVars == <<alias_map, raw, norm, resolved>>

vars == <<now, fetchVars, fileVars, spoonVars, nameVars>>

----------------------------------------------------------------------------
(* Program constants *)

WOM_MAX_RETRIES == 5

\* WOM_BASE_BACKOFF_SECONDS = 1.5, in tenths of a second
WOM_BASE_BACKOFF_TENTHS == 15

\* @st.cache_data(ttl=21600) on _fetch_wom_group_metric_success
FETCH_CACHE_TTL == 21600

\* @st.cache_data(ttl=21600) on prefetch_wom_group_metrics_bundle
BUNDLE_CACHE_TTL == 21600

\* @st.cache_data(ttl=300) on load_wom_group_metrics_from_file
FILE_CACHE_TTL == 300

\* missing_metrics[:12]
MISSING_PREVIEW == 12

----------------------------------------------------------------------------
(* Bounds of the model *)

\* bundle calls in one run of the cache specification
MaxCalls == 2

\* the clock advances in steps of TickSeconds, at most MaxTicks times
TickSeconds == 10800

MaxTicks == 2

\* load calls in one run of the snapshot specification
MaxLoads == 2

\* event rows in the category's data
MaxRows == 3

\* characters in a name given to the normaliser
MaxNameLen == 3

----------------------------------------------------------------------------
(* Generic helpers *)

Max(a, b) == IF a >= b THEN a ELSE b

EmptyMap == [k \in {} |-> 0]

\* d[key] = value on a Python dict
DictSet(d, key, value) ==
    [k \in (DOMAIN d) \cup {key} |-> IF k = key THEN value ELSE d[k]]

\* d.get(key, default)
DictGet(d, key, default) == IF key \in DOMAIN d THEN d[key] ELSE default

----------------------------------------------------------------------------
(* Identity normaliser *)

\* None, as an argument of _normalize_name
None == <<"None">>

Whitespace == {" "}

LowerAlnum == {"a", "b", "t", "1"}

\* str.lower() on one character
LowerChar(c) ==
    CASE c = "A" -> "a"
      [] c = "B" -> "b"
      [] c = "T" -> "t"
      [] OTHER -> c

RECURSIVE LStrip(_)
LStrip(s) ==
    IF s # <<>> /\ Head(s) \in Whitespace THEN LStrip(Tail(s)) ELSE s

RECURSIVE RStrip(_)
RStrip(s) ==
    IF s # <<>> /\ s[Len(s)] \in Whitespace
    THEN RStrip(SubSeq(s, 1, Len(s) - 1))
    ELSE s

\* str.strip()
Strip(s) == RStrip(LStrip(s))

\* mutant: the case is kept
LowerNothing(s) == s

\* str.lower()
Lower(s) == [i \in 1..Len(s) |-> LowerChar(s[i])]

\* re.sub(r"[^a-z0-9]+", "", s)
RECURSIVE RemoveNonAlnum(_)
RemoveNonAlnum(s) ==
    IF s = <<>> THEN <<>>
    ELSE IF Head(s) \in LowerAlnum
         THEN <<Head(s)>> \o RemoveNonAlnum(Tail(s))
         ELSE RemoveNonAlnum(Tail(s))

\* str(name or "")
StrOrEmpty(name) == IF name = None \/ name = <<>> THEN <<>> ELSE name

_normalize_name(name) == RemoveNonAlnum(Lower(Strip(StrOrEmpty(name))))

----------------------------------------------------------------------------
(* Values exchanged with the Wise Old Man service *)

\* The Retry-After header of a response: absent, not a number (an HTTP
\* date), or a number of seconds (v, in tenths of a second).
RetryAfterAbsent == [k |-> "absent", v |-> 0]

RetryAfterDate == [k |-> "unparsable", v |-> 0]

RetryAfterSeconds(t) == [k |-> "seconds", v |-> t]

\* The value found under "gained": None/absent, a number, a numeric string,
\* a non-numeric string, an empty string/list (falsy, not None), or a
\* non-empty list/object.
GNone == [k |-> "none", n |-> 0]

GNum(n) == [k |-> "num", n |-> n]

GNumStr(n) == [k |-> "numstr", n |-> n]

GBadStr == [k |-> "badstr", n |-> 0]

GFalsy == [k |-> "falsy", n |-> 0]

GContainer == [k |-> "container", n |-> 0]

\* row["data"] / row["metric"] when it is not a dict
NotADict == [k |-> "notadict", n |-> 0]

\* float(gained_value or 0): the float, or the exception float() raises
FloatOrZero(g) ==
    CASE g.k \in {"none", "falsy"} -> [ok |-> TRUE, v |-> 0, exc |-> ""]
      [] g.k \in {"num", "numstr"} -> [ok |-> TRUE, v |-> g.n, exc |-> ""]
      [] g.k = "badstr" -> [ok |-> FALSE, v |-> 0, exc |-> "ValueError"]
      [] OTHER -> [ok |-> FALSE, v |-> 0, exc |-> "TypeError"]

\* A record of the response: a dict (or not), the place of its player name
\* ("direct": username/displayName/name, "nested": under player/member,
\* "none"), and the values of gained, data.gained and metric.gained.
Row(isDict, nameAt, name, gained, dataGained, metricGained) ==
    [isDict |-> isDict, nameAt |-> nameAt, name |-> name, gained |-> gained,
     dataGained |-> dataGained, metricGained |-> metricGained]

_extract_player_name_from_row(row) ==
    IF ~row.isDict THEN None
    ELSE IF row.nameAt \in {"direct", "nested"} /\ row.name # <<>>
         THEN row.name
         ELSE None

\* A JSON body: where its list of records lives ("top_list", "data_list",
\* "data_key", "top_key"), or a shape with no list ("no_list", "scalar"),
\* or a body that is not JSON ("notjson").
Body(where, rows) == [where |-> where, rows |-> rows]

_extract_rows_from_group_response(body) ==
    IF body.where \in {"top_list", "data_list", "data_key", "top_key"}
    THEN body.rows
    ELSE <<>>

\* lines 203-207: the gained value of a row
RowGained(row) ==
    LET g1 == row.gained
        g2 == IF g1 = GNone /\ row.dataGained # NotADict
              THEN row.dataGained ELSE g1
        g3 == IF g2 = GNone /\ row.metricGained # NotADict
              THEN row.metricGained ELSE g2
    IN g3

\* lines 197-211: the loop over the rows; exc # "" when float() raised
RECURSIVE ParseRows(_, _)
ParseRows(rows, acc) ==
    IF rows = <<>> THEN [exc |-> "", gains |-> acc]
    ELSE LET row == Head(rows)
             player_name == _extract_player_name_from_row(row)
         IN IF player_name = None
            THEN ParseRows(Tail(rows), acc)
            ELSE LET fl == FloatOrZero(RowGained(row))
                 IN IF ~fl.ok
                    THEN [exc |-> fl.exc, gains |-> EmptyMap]
                    ELSE ParseRows(Tail(rows),
                            DictSet(acc, _normalize_name(player_name), fl.v))

\* A response of the service, or a transport failure (no response)
Http(status, retryAfter, body) ==
    [kind |-> "http", status |-> status, retryAfter |-> retryAfter,
     body |-> body]

NoBody == Body("scalar", <<>>)

TransportFailure ==
    [kind |-> "transport", status |-> 0, retryAfter |-> RetryAfterAbsent,
     body |-> NoBody]

----------------------------------------------------------------------------
(* Errors, as values *)

ErrorValue(kind, cause, group, metric, startDate, endDate) ==
    [kind |-> kind, cause |-> cause, group |-> group, metric |-> metric,
     startDate |-> startDate, endDate |-> endDate]

NoError == ErrorValue("None", "", 0, "", "", "")

\* f"Group {group_id} not found on Wise Old Man"
NotFoundError(group) == ErrorValue("not_found", "", group, "", "", "")

\* f"Rate limited by Wise Old Man after {WOM_MAX_RETRIES} retries for
\*   {url}?metric=..&startDate=..&endDate=.."
RateLimitedError(group, metric, startDate, endDate) ==
    ErrorValue("rate_limited", "", group, metric, startDate, endDate)

\* f"Wise Old Man request failed: {exc}"
RequestFailedError(cause) == ErrorValue("request_failed", cause, 0, "", "", "")

\* "Wise Old Man request failed after retries"
AfterRetriesError == ErrorValue("failed_after_retries", "", 0, "", "", "")

----------------------------------------------------------------------------
(* The inputs of the model *)

\* metric names, in the order sorted() gives them
MetricOrder == <<"barrows_chests", "lunar_chests", "unknown_boss", "zulrah">>

\* lines 25-40, cut down to the metrics of the model
SUPPORTED_WOM_BOSS_METRICS == {"barrows_chests", "lunar_chests", "zulrah"}

MetricRank(m) == CHOOSE i \in DOMAIN MetricOrder : MetricOrder[i] = m


\* player names as the service reports them
NameThrayge == <<"T", "a">>

NameAb == <<"A", " ", "b">>

NameAb2 == <<"a", "b">>

BodyGood == Body("top_list",
    <<Row(TRUE, "direct", NameThrayge, GNum(5), NotADict, NotADict),
      Row(TRUE, "nested", NameAb, GNone, GNum(3), NotADict)>>)

\* two records of one normalised key, values under "metric" and as a string
BodyDup == Body("data_key",
    <<Row(TRUE, "direct", NameAb, GNone, GNone, GNum(4)),
      Row(TRUE, "nested", NameAb2, GNumStr(7), NotADict, NotADict),
      Row(FALSE, "none", <<>>, GNone, NotADict, NotADict),
      Row(TRUE, "none", <<>>, GBadStr, NotADict, NotADict)>>)

\* records whose gained value is absent, empty, or zero
BodyZero == Body("top_key",
    <<Row(TRUE, "direct", NameThrayge, GNone, NotADict, GNone),
      Row(TRUE, "direct", NameAb, GFalsy, GNum(3), NotADict),
      Row(TRUE, "direct", <<"1">>, GNum(0), GNum(9), NotADict)>>)

\* a record whose gained value is a non-numeric string
BodyBadStr == Body("top_list",
    <<Row(TRUE, "direct", NameThrayge, GNum(5), NotADict, NotADict),
      Row(TRUE, "direct", NameAb, GBadStr, NotADict, NotADict)>>)

\* a record whose gained value is an object
BodyContainer == Body("data_list",
    <<Row(TRUE, "nested", NameAb, GNone, GContainer, NotADict)>>)

BodyNoList == Body("no_list",
    <<Row(TRUE, "direct", NameAb, GNum(2), NotADict, NotADict)>>)

BodyScalar == Body("scalar", <<>>)

BodyNotJson == Body("notjson", <<>>)

RetryAfters ==
    {RetryAfterAbsent, RetryAfterDate, RetryAfterSeconds(10),
     RetryAfterSeconds(30)}

\* every response the fetcher specification lets the service give
FullService ==
    {Http(200, RetryAfterAbsent, b) :
        b \in {BodyGood, BodyDup, BodyZero, BodyBadStr, BodyContainer,
               BodyNoList, BodyScalar, BodyNotJson}}
    \cup {Http(404, RetryAfterAbsent, NoBody),
          Http(500, RetryAfterAbsent, NoBody),
          TransportFailure}
    \cup {Http(429, ra, NoBody) : ra \in RetryAfters}

\* the responses of the bundle specification
CoarseService ==
    {Http(200, RetryAfterAbsent, BodyGood),
     Http(200, RetryAfterAbsent, BodyBadStr),
     Http(404, RetryAfterAbsent, NoBody),
     Http(429, RetryAfterAbsent, NoBody)}

\* the requests of the bundle specification:
\* (group_id, metrics, start_date_str, end_date_str)
BundleRequests ==
    {<<11794, <<"barrows_chests">>, "2026-01-01", "2026-01-31">>,
     <<11794, <<"lunar_chests", "barrows_chests", "lunar_chests">>,
       "2026-01-01", "2026-01-31">>,
     <<11794, <<"barrows_chests">>, "2026-01-02", "2026-01-31">>}

----------------------------------------------------------------------------
(* st.cache_data: a store of entries [key, at, val]; an entry answers a    *)
(* call with its key while less than ttl seconds old; a returned value is  *)
(* stored, a raised exception is not.                                      *)

CacheFresh(e, key, t, ttl) == e.key = key /\ t - e.at < ttl

CacheHit(cache, key, t, ttl) == \E e \in cache : CacheFresh(e, key, t, ttl)

CacheValue(cache, key, t, ttl) ==
    (CHOOSE e \in cache : CacheFresh(e, key, t, ttl)).val

CacheStore(cache, key, t, val) ==
    {e \in cache : e.key # key} \cup {[key |-> key, at |-> t, val |-> val]}

\* the arguments of _fetch_wom_group_metric_success, which key its cache
FetchCacheKey(group_id, metric_name, start_date_str, end_date_str) ==
    [group |-> group_id, metric |-> metric_name,
     startDate |-> start_date_str, endDate |-> end_date_str]

\* mutant: the bundle cache is keyed by (group, start date, end date) only
BundleCacheKeyTriple(group_id, metrics, start_date_str, end_date_str) ==
    [group |-> group_id, metrics |-> <<>>,
     startDate |-> start_date_str, endDate |-> end_date_str]

\* the arguments of prefetch_wom_group_metrics_bundle, which key its cache
BundleCacheKey(group_id, metrics, start_date_str, end_date_str) ==
    [group |-> group_id, metrics |-> metrics,
     startDate |-> start_date_str, endDate |-> end_date_str]

----------------------------------------------------------------------------
(* Metric fetcher *)

\* mutant: a Retry-After below the base backoff is taken as it is
RetryDelayWithoutFloor(response, attempt) ==
    IF response.retryAfter.k = "seconds"
    THEN response.retryAfter.v
    ELSE WOM_BASE_BACKOFF_TENTHS * attempt

_wom_retry_delay_seconds(response, attempt) ==
    IF response.retryAfter.k = "seconds"
    THEN Max(response.retryAfter.v, WOM_BASE_BACKOFF_TENTHS)
    ELSE WOM_BASE_BACKOFF_TENTHS * attempt

\* mutant: the backoff does not grow with the attempt number
TransportBackoffConstant(attempt) == WOM_BASE_BACKOFF_TENTHS

\* line 234: WOM_BASE_BACKOFF_SECONDS * attempt
TransportBackoff(attempt) == WOM_BASE_BACKOFF_TENTHS * attempt

\* mutant: every attempt may be retried
MayRetryAlways(attempt) == TRUE

\* mutant: the last attempt may be retried too
MayRetryInclusive(attempt) == attempt <= WOM_MAX_RETRIES

\* lines 223 and 233: attempt < WOM_MAX_RETRIES
MayRetry(attempt) == attempt < WOM_MAX_RETRIES

\* line 218: attempt was the last value of range(1, WOM_MAX_RETRIES + 1)
LoopEnds(attempt) == attempt >= WOM_MAX_RETRIES

FetchValue(gains, err) == [gains |-> gains, err |-> err]

Returns(val) == [k |-> "return", val |-> val, exc |-> "", delay |-> 0]

Raises(exc) ==
    [k |-> "raise", val |-> FetchValue(EmptyMap, NoError), exc |-> exc,
     delay |-> 0]

Sleeps(delay) ==
    [k |-> "sleep", val |-> FetchValue(EmptyMap, NoError), exc |-> "",
     delay |-> delay]

\* mutant: a 404 is left to raise_for_status like any other error status
FetchSuccessWithout404(group_id, response) ==
    IF response.kind = "transport" THEN Raises("RequestException")
    ELSE IF response.status >= 400 THEN Raises("HTTPError")
    ELSE IF response.body.where = "notjson" THEN Raises("RequestException")
    ELSE LET parsed == ParseRows(
                 _extract_rows_from_group_response(response.body), EmptyMap)
         IN IF parsed.exc # "" THEN Raises(parsed.exc)
            ELSE Returns(FetchValue(parsed.gains, NoError))

\* The body of _fetch_wom_group_metric_success, run on a cache miss, given
\* what requests.get met: the value it returns or the exception it raises.
\* response.json() on a body that is not JSON raises
\* requests.exceptions.JSONDecodeError, a RequestException.
_fetch_wom_group_metric_success(group_id, response) ==
    IF response.kind = "transport" THEN Raises("RequestException")
    ELSE IF response.status = 404
    THEN Returns(FetchValue(EmptyMap, NotFoundError(group_id)))
    ELSE IF response.status >= 400 THEN Raises("HTTPError")
    ELSE IF response.body.where = "notjson" THEN Raises("RequestException")
    ELSE LET parsed == ParseRows(
                 _extract_rows_from_group_response(response.body), EmptyMap)
         IN IF parsed.exc # "" THEN Raises(parsed.exc)
            ELSE Returns(FetchValue(parsed.gains, NoError))

\* mutant: every HTTP error status is retried like 429
RetryStepRetriesHttpErrors(attempt, response, outcome, k) ==
    CASE outcome.k = "return" -> outcome
      [] outcome.k = "raise" /\ outcome.exc = "HTTPError" ->
            IF MayRetry(attempt)
            THEN Sleeps(_wom_retry_delay_seconds(response, attempt))
            ELSE Returns(FetchValue(EmptyMap,
                    RateLimitedError(k.group, k.metric, k.startDate,
                                     k.endDate)))
      [] outcome.k = "raise" /\ outcome.exc = "RequestException" ->
            IF MayRetry(attempt)
            THEN Sleeps(TransportBackoff(attempt))
            ELSE Returns(FetchValue(EmptyMap,
                    RequestFailedError("RequestException")))
      [] OTHER -> outcome

\* One iteration of the retry loop of fetch_wom_group_metric (lines
\* 218-236), on attempt number `attempt`, given the outcome of the cached
\* call: return a value, sleep and continue, or let the exception through.
RetryStep(attempt, response, outcome, k) ==
    CASE outcome.k = "return" -> outcome
      [] outcome.k = "raise" /\ outcome.exc = "HTTPError" ->
            IF response.status = 429 /\ MayRetry(attempt)
            THEN Sleeps(_wom_retry_delay_seconds(response, attempt))
            ELSE IF response.status = 429
            THEN Returns(FetchValue(EmptyMap,
                    RateLimitedError(k.group, k.metric, k.startDate,
                                     k.endDate)))
            ELSE Returns(FetchValue(EmptyMap, RequestFailedError("HTTPError")))
      [] outcome.k = "raise" /\ outcome.exc = "RequestException" ->
            IF MayRetry(attempt)
            THEN Sleeps(TransportBackoff(attempt))
            ELSE Returns(FetchValue(EmptyMap,
                    RequestFailedError("RequestException")))
      [] OTHER -> outcome

\* a fetch_wom_group_metric call: its metric, the number of the current
\* attempt, the requests it issued, the responses it met, the sleeps it
\* made, and how it ended
NewFetch(metric) ==
    [metric |-> metric, attempt |-> 0, reqs |-> 0, resps |-> <<>>,
     sleeps |-> <<>>, cacheHit |-> FALSE, status |-> "running",
     out |-> FetchValue(EmptyMap, NoError), exc |-> ""]

NoFetch == [NewFetch("") EXCEPT !.status = "none"]

----------------------------------------------------------------------------
(* Metric bundle aggregator *)

RECURSIVE SortedSeqOf(_)
SortedSeqOf(S) ==
    IF S = {} THEN <<>>
    ELSE LET m == CHOOSE x \in S : \A y \in S : MetricRank(x) <= MetricRank(y)
         IN <<m>> \o SortedSeqOf(S \ {m})

MetricSet(metrics) == {metrics[i] : i \in DOMAIN metrics}

\* sorted(set(metrics))
SortedSet(metrics) == SortedSeqOf(MetricSet(metrics))

BundleArgs(group_id, metrics, start_date_str, end_date_str) ==
    [group |-> group_id, metrics |-> metrics,
     startDate |-> start_date_str, endDate |-> end_date_str]

ReqCacheKey == BundleCacheKey(req.group, req.metrics, req.startDate, req.endDate)

BundleValue(kc, errs) == [kc |-> kc, errors |-> errs]

\* f"{metric_name}: {error_msg}"
MetricError(metric, err) == [metric |-> metric, err |-> err]

\* if error_msg: (a non-empty string)
Truthy(err) == err # NoError

\* lines 252-255: what the aggregator does with a fetch's value
BundleAfterFetch(kc, errs, metric, val) ==
    IF Truthy(val.err)
    THEN BundleValue(kc, Append(errs, MetricError(metric, val.err)))
    ELSE BundleValue(DictSet(kc, metric, val.gains), errs)

----------------------------------------------------------------------------
(* Snapshot file loader *)

\* The file on disk: absent, not parsable as JSON, or JSON whose top-level
\* value is an object, a list or a scalar.  For an object: its group_id
\* (0: none), start_date and end_date ("": none), the type of its metrics
\* field ("dict", "absent", "other") and, for a dict, the value stored under
\* each metric name: an object of player key -> gained value, or not one.
SnapshotFile(kind, top, group_id, start_date, end_date, metricsType, metrics) ==
    [kind |-> kind, top |-> top, group_id |-> group_id,
     start_date |-> start_date, end_date |-> end_date,
     metricsType |-> metricsType, metrics |-> metrics]

FileAbsent == SnapshotFile("absent", "", 0, "", "", "absent", EmptyMap)

FileUnparsable == SnapshotFile("unparsable", "", 0, "", "", "absent", EmptyMap)

FileTopList == SnapshotFile("json", "list", 0, "", "", "absent", EmptyMap)

FileTopScalar == SnapshotFile("json", "scalar", 0, "", "", "absent", EmptyMap)

MetricObject(map) == [isDict |-> TRUE, map |-> map]

MetricNotObject == [isDict |-> FALSE, map |-> EmptyMap]

\* the metrics fields of the model's files
FileMetricsFull ==
    ("barrows_chests" :>
        MetricObject((<<"a", "b">> :> GNum(3)) @@ (<<"t", "a">> :> GNum(5))))
    @@ ("lunar_chests" :>
        MetricObject((<<"a", "b">> :> GNone) @@ (<<"1">> :> GBadStr)
                     @@ (<<"t", "a">> :> GContainer)
                     @@ (<<"b">> :> GNumStr(2))))

FileMetricsPartial ==
    ("barrows_chests" :> MetricObject((<<"a", "b">> :> GNum(4))))
    @@ ("lunar_chests" :> MetricNotObject)

FileStates ==
    {FileAbsent, FileUnparsable, FileTopList, FileTopScalar}
    \cup {SnapshotFile("json", "object", g, d[1], d[2], mt, ms) :
            g \in {11794, 1, 0},
            d \in {<<"2026-01-01", "2026-01-31">>,
                   <<"2026-01-02", "2026-01-31">>,
                   <<"2026-01-01", "">>},
            mt \in {"dict", "absent", "other"},
            ms \in {FileMetricsFull, FileMetricsPartial}}

\* the requests of the snapshot specification:
\* (group_id, start_date_str, end_date_str, metrics)
LoadRequests ==
    {<<11794, "2026-01-01", "2026-01-31", <<"barrows_chests">>>>,
     <<11794, "2026-01-01", "2026-01-31",
       <<"zulrah", "lunar_chests", "barrows_chests">>>>,
     <<1, "2026-01-02", "2026-01-31", <<"lunar_chests">>>>}

Note(kind, detail) == [kind |-> kind, detail |-> detail]

\* mutant: only the group id is compared with the request
ProvenanceNotesGroupOnly(file_group_id, file_start, file_end, group_id, start_date_str, end_date_str) ==
    IF file_group_id # group_id
    THEN <<Note("group_id_mismatch",
                <<ToString(file_group_id), ToString(group_id)>>)>>
    ELSE <<>>

\* lines 276-281: the notes on the file's provenance
ProvenanceNotes(file_group_id, file_start, file_end, group_id, start_date_str, end_date_str) ==
    (IF file_group_id # group_id
     THEN <<Note("group_id_mismatch",
                 <<ToString(file_group_id), ToString(group_id)>>)>>
     ELSE <<>>)
    \o (IF file_start # start_date_str \/ file_end # end_date_str
        THEN <<Note("date_range_mismatch",
                    <<file_start, file_end, start_date_str, end_date_str>>)>>
        ELSE <<>>)

\* lines 291-294: float(gained_value or 0), 0.0 on TypeError or ValueError
FloatOrZeroCaught(g) == IF FloatOrZero(g).ok THEN FloatOrZero(g).v ELSE 0

\* lines 289-294
NormalizedMetricMap(metric_map) ==
    [player_key \in DOMAIN metric_map |->
        FloatOrZeroCaught(metric_map[player_key])]

\* lines 285-295: the loop over the requested metrics
RECURSIVE LoadMetrics(_, _, _)
LoadMetrics(metrics, file_metrics, kc) ==
    IF metrics = <<>> THEN kc
    ELSE LET metric_name == Head(metrics)
         IN IF metric_name \in DOMAIN file_metrics
               /\ file_metrics[metric_name].isDict
            THEN LoadMetrics(Tail(metrics), file_metrics,
                    DictSet(kc, metric_name,
                        NormalizedMetricMap(file_metrics[metric_name].map)))
            ELSE LoadMetrics(Tail(metrics), file_metrics, kc)

Prefix(seq, n) == SubSeq(seq, 1, IF Len(seq) < n THEN Len(seq) ELSE n)

LoadValue(kc, notes) == [kc |-> kc, notes |-> notes]

LoadReturns(val) == [k |-> "return", val |-> val, exc |-> ""]

LoadRaises(exc) == [k |-> "raise", val |-> LoadValue(EmptyMap, <<>>), exc |-> exc]

\* The body of load_wom_group_metrics_from_file (lines 261-301) on the file
\* `fl`: the value it returns, or the exception that leaves it.
load_wom_group_metrics_from_file(fl, group_id, start_date_str, end_date_str, metrics) ==
    IF fl.kind = "absent"
    THEN LoadReturns(LoadValue(EmptyMap, <<Note("file_not_found", <<>>)>>))
    ELSE IF fl.kind = "unparsable"
    THEN LoadReturns(LoadValue(EmptyMap, <<Note("read_failed", <<>>)>>))
    ELSE IF fl.top # "object"
    THEN LoadRaises("AttributeError")
    ELSE LET notes == ProvenanceNotes(fl.group_id, fl.start_date, fl.end_date,
                          group_id, start_date_str, end_date_str)
             file_metrics == IF fl.metricsType = "absent" THEN EmptyMap
                             ELSE fl.metrics
         IN IF fl.metricsType = "other"
            THEN LoadReturns(LoadValue(EmptyMap,
                    notes \o <<Note("metrics_not_object", <<>>)>>))
            ELSE LET kc == LoadMetrics(metrics, file_metrics, EmptyMap)
                     missing_metrics ==
                         SortedSeqOf(MetricSet(metrics) \ DOMAIN kc)
                 IN LoadReturns(LoadValue(kc,
                        IF missing_metrics # <<>>
                        THEN notes \o <<Note("missing_metrics",
                                 Prefix(missing_metrics, MISSING_PREVIEW))>>
                        ELSE notes))

\* the arguments of load_wom_group_metrics_from_file, which key its cache
LoadArgs(group_id, start_date_str, end_date_str, metrics) ==
    [group |-> group_id, startDate |-> start_date_str,
     endDate |-> end_date_str, metrics |-> metrics]

\* a load call: its arguments, how it ended, what it returned
LoadCallRecord(args, status, val, exc, hit) ==
    [args |-> args, status |-> status, kc |-> val.kc, notes |-> val.notes,
     exc |-> exc, hit |-> hit]

NoLoad ==
    LoadCallRecord(LoadArgs(0, "", "", <<>>), "none",
                   LoadValue(EmptyMap, <<>>), "", FALSE)

----------------------------------------------------------------------------
(* Reconciliation: the spooned index *)

\* Points, KC gains and dates are integers: points and gains in thousandths,
\* a date as a day number (0: None).

\* the alias source "Iron Thrage", cut down to the alphabet of the model
NameIronThrage == <<"B", " ", "T">>

\* lines 19-24, in insertion order: CSV player name -> Wise Old Man name
WOM_PLAYER_ALIASES ==
    <<[source |-> NameIronThrage, target |-> NameThrayge]>>

\* the aliases whose source is raw_name, or has its normalized form
AliasesFor(raw_name, normalized) ==
    {i \in DOMAIN alias_map :
        IF normalized
        THEN _normalize_name(alias_map[i].source) = _normalize_name(raw_name)
        ELSE alias_map[i].source = raw_name}

\* the index of the first alias of AliasesFor, 0 if none
FirstAlias(raw_name, normalized) ==
    IF AliasesFor(raw_name, normalized) = {} THEN 0
    ELSE CHOOSE i \in AliasesFor(raw_name, normalized) :
            \A j \in AliasesFor(raw_name, normalized) : i <= j

\* mutant: the exact match is skipped
ResolveByNormalizedScan(player_name) ==
    LET raw_name == Strip(player_name)
        scanned == FirstAlias(raw_name, TRUE)
    IN IF scanned # 0 /\ alias_map[scanned].target # <<>>
       THEN _normalize_name(alias_map[scanned].target)
       ELSE _normalize_name(raw_name)

\* lines 121-132
_resolve_csv_player_to_wom_key(player_name) ==
    LET raw_name == Strip(player_name)
        exact == FirstAlias(raw_name, FALSE)
        scanned == FirstAlias(raw_name, TRUE)
        alias_target ==
            IF exact # 0 THEN alias_map[exact].target
            ELSE IF scanned # 0 THEN alias_map[scanned].target
            ELSE <<>>
    IN IF alias_target # <<>>
       THEN _normalize_name(alias_target)
       ELSE _normalize_name(raw_name)

\* a call on the name arg: its key, the key of that key, and the key of the
\* latest respelling of the name
NameCall(status, arg, key, again, other) ==
    [status |-> status, arg |-> arg, key |-> key, again |-> again, other |-> other]

NoNorm == NameCall("none", <<>>, <<>>, <<>>, <<>>)

\* the characters of the names given to the normaliser
NameChars == {"b", "B", "t", "T", " ", "-", "1"}

\* None, and every name of at most MaxNameLen characters
NameInputs ==
    {None} \cup UNION {[1..n -> NameChars] : n \in 0..MaxNameLen}

\* the shipped alias table, one with two sources of the same normalized
\* form, and an empty one
AliasMaps ==
    {WOM_PLAYER_ALIASES,
     <<[source |-> <<"b", " ", "t">>, target |-> <<"1">>],
       [source |-> NameIronThrage, target |-> NameThrayge]>>,
     <<>>}

\* str.swapcase() on one character
SwapCase(c) ==
    CASE c = "b" -> "B"
      [] c = "t" -> "T"
      [] c = "a" -> "A"
      [] OTHER -> LowerChar(c)

\* the names that differ from name in the case of one letter or in one
\* whitespace character
Respellings(name) ==
    IF name = None THEN {} ELSE
    ({[name EXCEPT ![i] = SwapCase(name[i])] : i \in DOMAIN name}
     \cup {SubSeq(name, 1, i - 1) \o SubSeq(name, i + 1, Len(name)) :
              i \in {j \in DOMAIN name : name[j] \in Whitespace}}
     \cup (IF Len(name) < MaxNameLen
           THEN {SubSeq(name, 1, i) \o <<" ">> \o SubSeq(name, i + 1, Len(name)) :
                   i \in 0..Len(name)}
           ELSE {}))
    \ {name}

\* the integer nearest to num / den (den > 0), a tie going to the even one
RoundHalfEven(num, den) ==
    LET q == num \div den
        r == num % den
    IN IF 2 * r < den THEN q
       ELSE IF 2 * r > den THEN q + 1
       ELSE IF q % 2 = 0 THEN q ELSE q + 1

\* round(x, 2) of x in thousandths, in thousandths
Round2(x) == 10 * RoundHalfEven(x, 10)

\* mutant: the quotient is cut, not rounded
Round3QuotientTruncated(player_points, player_kc_gain) ==
    (1000 * player_points) \div player_kc_gain

\* lines 331, 338: round(player_points / player_kc_gain, 3), in thousandths
Round3Quotient(player_points, player_kc_gain) ==
    RoundHalfEven(1000 * player_points, player_kc_gain)

\* the players of the event log, in the order sorted() gives them
PlayerOrder ==
    <<(<<"1">>),
      <<"1", "1", "1">>, <<"1", "1", "a">>, <<"1", "1", "b">>,
      <<"1", "1", "t">>, <<"1", "a", "1">>, <<"1", "a", "a">>,
      <<"1", "a", "b">>, <<"1", "a", "t">>, <<"1", "b", "1">>,
      <<"1", "b", "a">>, <<"1", "b", "b">>, <<"1", "b", "t">>,
      <<"1", "t", "1">>, <<"1", "t", "a">>,
      <<"a", "-", "b">>, <<"a", "b">>, <<"b", "t">>, <<"t", "a">>>>

\* sorted() of a set of players
SortedPlayers(S) == SelectSeq(PlayerOrder, LAMBDA p : p \in S)

EventRow(player, points, date) ==
    [Player |-> player, Points |-> points, Date |-> date]

\* category_df["Player"].dropna().unique()
UniquePlayers(df) == {df[i].Player : i \in DOMAIN df}

\* category_df.loc[category_df["Player"] == player, "Points"].sum()
RECURSIVE PointsSum(_, _)
PointsSum(df, player) ==
    IF df = <<>> THEN 0
    ELSE (IF Head(df).Player = player THEN Head(df).Points ELSE 0)
         + PointsSum(Tail(df), player)

\* category_df["Date"].min()
MinDate(df) ==
    CHOOSE d \in {df[i].Date : i \in DOMAIN df} :
        \A i \in DOMAIN df : d <= df[i].Date

\* category_df["Date"].max()
MaxDate(df) ==
    CHOOSE d \in {df[i].Date : i \in DOMAIN df} :
        \A i \in DOMAIN df : d >= df[i].Date

\* line 311
ValidMetrics(selected) ==
    SelectSeq(selected, LAMBDA m : m \in SUPPORTED_WOM_BOSS_METRICS)

\* lines 320-321: one metric's gains added to kc_by_player
RECURSIVE AddGains(_, _, _)
AddGains(kc_by_player, metric_gains, keys) ==
    IF keys = {} THEN kc_by_player
    ELSE LET normalized_player == CHOOSE k \in keys : TRUE
         IN AddGains(DictSet(kc_by_player, normalized_player,
                        DictGet(kc_by_player, normalized_player, 0)
                        + metric_gains[normalized_player]),
                     metric_gains, keys \ {normalized_player})

\* lines 316-321
RECURSIVE KcByPlayer(_, _, _)
KcByPlayer(valid_metrics, bundle, kc_by_player) ==
    IF valid_metrics = <<>> THEN kc_by_player
    ELSE LET metric_gains == DictGet(bundle, Head(valid_metrics), EmptyMap)
         IN KcByPlayer(Tail(valid_metrics), bundle,
                AddGains(kc_by_player, metric_gains, DOMAIN metric_gains))

\* the "Spooned Index" of a row: None, or a number of thousandths
NoIndex == [defined |-> FALSE, milli |-> 0]

Index(t) == [defined |-> TRUE, milli |-> t]

SpoonRow(rank, player, points, kc_gain, index) ==
    [Rank |-> rank, Player |-> player, Points |-> points,
     KCGain |-> kc_gain, SpoonedIndex |-> index]

\* lines 326-340: the row of one player
PlayerRow(df, kc_by_player, player) ==
    LET player_points == PointsSum(df, player)
        wom_lookup_key == _resolve_csv_player_to_wom_key(player)
        player_kc_gain == DictGet(kc_by_player, wom_lookup_key, 0)
    IN SpoonRow(0, player, Round2(player_points), Round2(player_kc_gain),
                IF player_kc_gain > 0
                THEN Index(Round3Quotient(player_points, player_kc_gain))
                ELSE NoIndex)

\* mutant: a player without points is flagged as well
MissingFromWomAnyPoints(df, kc_by_player, player) ==
    DictGet(kc_by_player, _resolve_csv_player_to_wom_key(player), 0) = 0

\* line 329
MissingFromWom(df, kc_by_player, player) ==
    /\ DictGet(kc_by_player, _resolve_csv_player_to_wom_key(player), 0) = 0
    /\ PointsSum(df, player) > 0

\* mutant: the points do not break a tie of the index
SortsBeforeByIndexOnly(a, b) ==
    IF a.SpoonedIndex.defined # b.SpoonedIndex.defined
    THEN a.SpoonedIndex.defined
    ELSE a.SpoonedIndex.defined /\ a.SpoonedIndex.milli > b.SpoonedIndex.milli

\* lines 346-349: row a sorts before row b
SortsBefore(a, b) ==
    IF a.SpoonedIndex.defined # b.SpoonedIndex.defined
    THEN a.SpoonedIndex.defined
    ELSE IF a.SpoonedIndex.defined
            /\ a.SpoonedIndex.milli # b.SpoonedIndex.milli
    THEN a.SpoonedIndex.milli > b.SpoonedIndex.milli
    ELSE a.Points > b.Points

RECURSIVE InsertRow(_, _)
InsertRow(sorted, row) ==
    IF sorted = <<>> THEN <<row>>
    ELSE IF SortsBefore(row, Head(sorted)) THEN <<row>> \o sorted
    ELSE <<Head(sorted)>> \o InsertRow(Tail(sorted), row)

\* lines 346-350: sort_values(by Spooned Index, Points; descending; None
\* last), rows that compare equal keeping their order
RECURSIVE SortValues(_, _)
SortValues(rows, sorted) ==
    IF rows = <<>> THEN sorted
    ELSE SortValues(Tail(rows), InsertRow(sorted, Head(rows)))

\* line 351
WithRank(rows) == [i \in DOMAIN rows |-> [rows[i] EXCEPT !.Rank = i]]

SpoonNote(kind, metrics, players) ==
    [kind |-> kind, metrics |-> metrics, players |-> players]

SpoonResult(status, rows, start_date, end_date, notes) ==
    [status |-> status, rows |-> rows, start_date |-> start_date,
     end_date |-> end_date, errors |-> notes]

NoSpoon == SpoonResult("none", <<>>, 0, 0, <<>>)

\* lines 304-362
build_spooned_index(df, selected, bundle) ==
    IF df = <<>> THEN SpoonResult("returned", <<>>, 0, 0, <<>>)
    ELSE
    LET valid_metrics == ValidMetrics(selected)
        unsupported_metrics ==
            SortedSeqOf(MetricSet(selected) \ MetricSet(valid_metrics))
        unsupported_note ==
            IF unsupported_metrics # <<>>
            THEN <<SpoonNote("unsupported_metrics", unsupported_metrics, <<>>)>>
            ELSE <<>>
        kc_by_player == KcByPlayer(valid_metrics, bundle, EmptyMap)
        players == SortedPlayers(UniquePlayers(df))
        rows == [i \in DOMAIN players |->
                    PlayerRow(df, kc_by_player, players[i])]
        missing_from_wom ==
            {p \in UniquePlayers(df) : MissingFromWom(df, kc_by_player, p)}
        missing_note ==
            IF missing_from_wom # {}
            THEN <<SpoonNote("missing_from_wom", <<>>,
                     Prefix(SortedPlayers(missing_from_wom), MISSING_PREVIEW))>>
            ELSE <<>>
    IN SpoonResult("returned", WithRank(SortValues(rows, <<>>)),
                   MinDate(df), MaxDate(df),
                   unsupported_note \o missing_note)

\* the event rows the model draws the category's data from
EventRows ==
    {EventRow(<<"a", "b">>, 1000, 1),
     EventRow(<<"a", "b">>, 1234, 2),
     EventRow(<<"a", "-", "b">>, 10000, 2),
     EventRow(<<"b", "t">>, 30000, 3),
     EventRow(<<"b", "t">>, 0, 1),
     EventRow(<<"1">>, 20000, 2),
     EventRow(<<"t", "a">>, 0, 3)}

\* an event log of one more player than the diagnostic of line 354 lists,
\* each with one point
RosterLog ==
    [i \in 1..(MISSING_PREVIEW + 1) |-> EventRow(PlayerOrder[i + 1], 1000, 1)]

\* the metric lists of lines 45, 53 and 48, one with an unsupported name and
\* one that names a metric twice
SelectedMetricLists ==
    {<<"barrows_chests", "lunar_chests">>, <<"zulrah">>, <<>>,
     <<"unknown_boss", "barrows_chests">>, <<"zulrah", "zulrah">>}

\* bundles as load_wom_group_metrics_from_file returns them
SpoonBundles ==
    {("barrows_chests" :>
         ((<<"a", "b">> :> 2001000) @@ (<<"t", "a">> :> 15000)))
     @@ ("lunar_chests" :>
         ((<<"a", "b">> :> 1000) @@ (<<"1">> :> 10000))),
     ("barrows_chests" :>
         ((<<"a", "b">> :> 0) @@ (<<"t", "a">> :> 0 - 1000)
          @@ (<<"1">> :> 8000)))
     @@ ("zulrah" :>
         ((<<"a", "b">> :> 5000) @@ (<<"b", "t">> :> 3000)
          @@ (<<"t", "a">> :> 10000))),
     EmptyMap}

\* a bundle call that ended at time t: how ("returned" with val, or
\* "raised"), and whether it ran the aggregator or was answered by the cache
LogEntry(args, t, val, ran, how) ==
    [args |-> args, at |-> t, val |-> val, ran |-> ran, how |-> how]

\* a value returned by the body of _fetch_wom_group_metric_success at time
\* t, during call number `call`
InnerLogEntry(key, t, call) == [key |-> key, at |-> t, call |-> call]

\* no bundle call has been made and the caches are empty
FetchIdle ==
    /\ innerCache = {}
    /\ outerCache = {}
    /\ pc = "idle"
    /\ req = BundleArgs(0, <<>>, "", "")
    /\ todo = <<>>
    /\ kc_by_metric = EmptyMap
    /\ errors = <<>>
    /\ outbound = 0
    /\ outerHit = FALSE
    /\ f = NoFetch
    /\ asked = {}
    /\ served = {}
    /\ innerLog = {}
    /\ log = <<>>

\* no load call has been made
FileIdle ==
    /\ fileCache = {}
    /\ load = NoLoad
    /\ loads = 0

\* the shipped alias table; no name has been normalised or resolved
NameIdle ==
    /\ alias_map = WOM_PLAYER_ALIASES
    /\ raw = <<>>
    /\ norm = NoNorm
    /\ resolved = NoNorm

\* no event row has been read and no index has been built
SpoonIdle ==
    /\ category_df = <<>>
    /\ selected_boss_metrics = <<>>
    /\ prefetched_kc_by_metric = EmptyMap
    /\ spoon = NoSpoon

Init ==
    /\ now = 0
    /\ FetchIdle
    /\ file = FileAbsent
    /\ FileIdle
    /\ SpoonIdle
    /\ NameIdle

\* A call of prefetch_wom_group_metrics_bundle, to its first fetch: a cache
\* hit returns the stored bundle; otherwise the loop over sorted(set(metrics))
\* starts (and ends at once when there is no metric).
CallBundle(group_id, metrics, start_date_str, end_date_str) ==
    LET args == BundleArgs(group_id, metrics, start_date_str, end_date_str)
        key == BundleCacheKey(group_id, metrics, start_date_str, end_date_str)
        sorted == SortedSet(metrics)
    IN /\ pc # "fetching"
       /\ req' = args
       /\ outbound' = 0
       /\ asked' = {}
       /\ served' = {}
       /\ f' = NoFetch
       /\ UNCHANGED <<now, innerCache, innerLog, fileVars, spoonVars, nameVars>>
       /\ IF CacheHit(outerCache, key, now, BUNDLE_CACHE_TTL)
          THEN LET val == CacheValue(outerCache, key, now, BUNDLE_CACHE_TTL)
               IN /\ pc' = "returned"
                  /\ outerHit' = TRUE
                  /\ kc_by_metric' = val.kc
                  /\ errors' = val.errors
                  /\ todo' = <<>>
                  /\ log' = Append(log, LogEntry(args, now, val, FALSE,
                                                 "returned"))
                  /\ UNCHANGED outerCache
          ELSE /\ outerHit' = FALSE
               /\ kc_by_metric' = EmptyMap
               /\ errors' = <<>>
               /\ todo' = sorted
               /\ IF sorted = <<>>
                  THEN /\ pc' = "returned"
                       /\ outerCache' = CacheStore(outerCache, key, now,
                                            BundleValue(EmptyMap, <<>>))
                       /\ log' = Append(log, LogEntry(args, now,
                                     BundleValue(EmptyMap, <<>>), TRUE,
                                     "returned"))
                  ELSE /\ pc' = "fetching"
                       /\ UNCHANGED <<outerCache, log>>

\* The end of a fetch_wom_group_metric call inside the aggregator's loop:
\* the value goes to the bundle or the error list, the loop moves to the next
\* metric, and after the last one the bundle is returned and cached.
FetchReturns(cur, val) ==
    LET b == BundleAfterFetch(kc_by_metric, errors, cur.metric, val)
    IN /\ f' = [cur EXCEPT !.status = "returned", !.out = val]
       /\ kc_by_metric' = b.kc
       /\ errors' = b.errors
       /\ todo' = Tail(todo)
       /\ IF Tail(todo) = <<>>
          THEN /\ pc' = "returned"
               /\ outerCache' = CacheStore(outerCache, ReqCacheKey, now, b)
               /\ log' = Append(log, LogEntry(req, now, b, TRUE, "returned"))
          ELSE /\ pc' = "fetching"
               /\ UNCHANGED <<outerCache, log>>

\* The exception leaves fetch_wom_group_metric and the aggregator.
FetchRaises(cur, exc) ==
    /\ f' = [cur EXCEPT !.status = "raised", !.exc = exc]
    /\ pc' = "raised"
    /\ log' = Append(log, LogEntry(req, now, BundleValue(EmptyMap, <<>>),
                                   TRUE, "raised"))
    /\ UNCHANGED <<kc_by_metric, errors, todo, outerCache>>

\* the fetch call the next attempt belongs to
CurrentFetch == IF f.status = "running" THEN f ELSE NewFetch(Head(todo))

CurrentKey ==
    FetchCacheKey(req.group, Head(todo), req.startDate, req.endDate)

\* An attempt whose call of _fetch_wom_group_metric_success is answered by
\* its cache: no request is issued.
AttemptCached ==
    /\ pc = "fetching"
    /\ CacheHit(innerCache, CurrentKey, now, FETCH_CACHE_TTL)
    /\ LET cur == [CurrentFetch EXCEPT !.attempt = @ + 1, !.cacheHit = TRUE]
       IN FetchReturns(cur, CacheValue(innerCache, CurrentKey, now,
                                       FETCH_CACHE_TTL))
    /\ served' = served \cup {Head(todo)}
    /\ UNCHANGED <<now, innerCache, req, outbound, outerHit, asked, innerLog,
                   fileVars, spoonVars, nameVars>>

\* An attempt that issues the request and meets `response`: the retry loop
\* returns, lets an exception through, or sleeps and goes round again (after
\* the last round the code returns its "failed after retries" value).
AttemptRequest(response) ==
    /\ pc = "fetching"
    /\ ~CacheHit(innerCache, CurrentKey, now, FETCH_CACHE_TTL)
    /\ LET cur == [CurrentFetch EXCEPT
                      !.attempt = @ + 1, !.reqs = @ + 1,
                      !.resps = Append(@, response)]
           outcome == _fetch_wom_group_metric_success(req.group, response)
           step == RetryStep(cur.attempt, response, outcome, CurrentKey)
           slept == [cur EXCEPT !.sleeps = Append(@, step.delay)]
       IN /\ outbound' = outbound + 1
          /\ asked' = asked \cup {Head(todo)}
          /\ IF outcome.k = "return"
             THEN /\ innerCache' = CacheStore(innerCache, CurrentKey, now,
                                              outcome.val)
                  /\ innerLog' = innerLog \cup
                        {InnerLogEntry(CurrentKey, now, Len(log) + 1)}
             ELSE UNCHANGED <<innerCache, innerLog>>
          /\ CASE step.k = "return" -> FetchReturns(cur, step.val)
               [] step.k = "raise" -> FetchRaises(cur, step.exc)
               [] step.k = "sleep" /\ LoopEnds(cur.attempt) ->
                    FetchReturns(slept,
                                 FetchValue(EmptyMap, AfterRetriesError))
               [] OTHER ->
                    /\ f' = slept
                    /\ UNCHANGED <<pc, kc_by_metric, errors, todo,
                                   outerCache, log>>
    /\ UNCHANGED <<now, req, outerHit, served, fileVars, spoonVars, nameVars>>

\* time passes between two bundle calls
Tick ==
    /\ pc \in {"returned", "raised"}
    /\ Len(log) < MaxCalls
    /\ now + TickSeconds <= MaxTicks * TickSeconds
    /\ now' = now + TickSeconds
    /\ UNCHANGED <<fetchVars, fileVars, spoonVars, nameVars>>

\* The fetcher: one call for one metric, against every kind of response.
NextFetch ==
    \/ \E m \in SUPPORTED_WOM_BOSS_METRICS :
          /\ pc = "idle"
          /\ CallBundle(11794, <<m>>, "2026-01-01", "2026-01-31")
    \/ \E response \in FullService : AttemptRequest(response)

SpecFetch == Init /\ [][NextFetch]_vars

\* The aggregator and its caches: several calls, time passing between them.
NextBundle ==
    \/ \E r \in BundleRequests :
          /\ Len(log) < MaxCalls
          /\ CallBundle(r[1], r[2], r[3], r[4])
    \/ AttemptCached
    \/ \E response \in CoarseService : AttemptRequest(response)
    \/ Tick

SpecBundle == Init /\ [][NextBundle]_vars

\* One bundle call against a mix of responses: a success without records, a
\* body whose parsing raises, 429, another HTTP error, a transport failure.
NextRetry ==
    \/ \E r \in BundleRequests :
          /\ pc = "idle"
          /\ CallBundle(r[1], r[2], r[3], r[4])
    \/ \E response \in {Http(200, RetryAfterAbsent, BodyScalar),
                         Http(200, RetryAfterAbsent, BodyContainer),
                         Http(429, RetryAfterAbsent, NoBody),
                         Http(500, RetryAfterAbsent, NoBody),
                         TransportFailure} : AttemptRequest(response)

\* requests.get answers or fails within its timeout and time.sleep returns:
\* a call that can take a step takes one
SpecRetry == Init /\ [][NextRetry]_vars /\ WF_vars(NextRetry)

\* A call of load_wom_group_metrics_from_file: answered by its cache, or by
\* its body, whose returned value is stored.
LoadCall(group_id, start_date_str, end_date_str, metrics) ==
    LET args == LoadArgs(group_id, start_date_str, end_date_str, metrics)
        outcome == load_wom_group_metrics_from_file(file, group_id,
                       start_date_str, end_date_str, metrics)
    IN /\ loads < MaxLoads
       /\ loads' = loads + 1
       /\ IF CacheHit(fileCache, args, now, FILE_CACHE_TTL)
          THEN /\ load' = LoadCallRecord(args, "returned",
                              CacheValue(fileCache, args, now, FILE_CACHE_TTL),
                              "", TRUE)
               /\ UNCHANGED fileCache
          ELSE IF outcome.k = "return"
          THEN /\ load' = LoadCallRecord(args, "returned", outcome.val, "",
                                         FALSE)
               /\ fileCache' = CacheStore(fileCache, args, now, outcome.val)
          ELSE /\ load' = LoadCallRecord(args, "raised", outcome.val,
                                         outcome.exc, FALSE)
               /\ UNCHANGED fileCache
       /\ UNCHANGED <<now, file, fetchVars, spoonVars, nameVars>>

\* time passes between two load calls
TickLoad ==
    /\ loads \in 1..(MaxLoads - 1)
    /\ now + TickSeconds <= MaxTicks * TickSeconds
    /\ now' = now + TickSeconds
    /\ UNCHANGED <<fetchVars, fileVars, spoonVars, nameVars>>

\* the snapshot file is any of FileStates and stays as it is
InitFile ==
    /\ now = 0
    /\ FetchIdle
    /\ file \in FileStates
    /\ FileIdle
    /\ SpoonIdle
    /\ NameIdle

NextFile ==
    \/ \E r \in LoadRequests : LoadCall(r[1], r[2], r[3], r[4])
    \/ TickLoad

SpecFile == InitFile /\ [][NextFile]_vars

\* one more event row of the category is read from the CSV
ReadEvent(row) ==
    /\ spoon.status = "none"
    /\ \/ Len(category_df) < MaxRows
       \/ /\ Len(category_df) >= Len(RosterLog)
          /\ Len(category_df) < Len(RosterLog) + MaxRows - 1
          /\ SubSeq(category_df, 1, Len(RosterLog)) = RosterLog
    /\ category_df' = Append(category_df, row)
    /\ UNCHANGED <<now, fetchVars, fileVars, nameVars, selected_boss_metrics,
                   prefetched_kc_by_metric, spoon>>

\* the call of build_spooned_index on the category's rows (line 705)
BuildSpoonedIndex ==
    /\ spoon.status = "none"
    /\ spoon' = build_spooned_index(category_df, selected_boss_metrics,
                                    prefetched_kc_by_metric)
    /\ UNCHANGED <<now, fetchVars, fileVars, nameVars, category_df,
                   selected_boss_metrics, prefetched_kc_by_metric>>

\* a category's metric list and a bundle are given; the event log is empty
\* or holds the roster, and no further event row is read yet
InitSpoon ==
    /\ now = 0
    /\ FetchIdle
    /\ file = FileAbsent
    /\ FileIdle
    /\ category_df \in {<<>>, RosterLog}
    /\ selected_boss_metrics \in SelectedMetricLists
    /\ prefetched_kc_by_metric \in SpoonBundles
    /\ spoon = NoSpoon
    /\ NameIdle

NextSpoon ==
    \/ \E row \in EventRows : ReadEvent(row)
    \/ BuildSpoonedIndex

SpecSpoon == InitSpoon /\ [][NextSpoon]_vars

\* a call of _normalize_name on the name, and on the key it returns
NormalizeName ==
    /\ norm.status = "none"
    /\ resolved.status = "none"
    /\ norm' = NameCall("done", raw, _normalize_name(raw),
                        _normalize_name(_normalize_name(raw)),
                        _normalize_name(raw))
    /\ UNCHANGED <<now, fetchVars, fileVars, spoonVars, alias_map, raw,
                   resolved>>

\* the name is spelt with another case or other whitespace, and normalised
RespellName(name) ==
    /\ norm.status = "done"
    /\ raw # None
    /\ name \in Respellings(raw)
    /\ raw' = name
    /\ norm' = [norm EXCEPT !.other = _normalize_name(name)]
    /\ UNCHANGED <<now, fetchVars, fileVars, spoonVars, alias_map, resolved>>

\* a call of _resolve_csv_player_to_wom_key on the name (line 327)
ResolvePlayer ==
    /\ norm.status = "none"
    /\ resolved.status = "none"
    /\ raw # None
    /\ resolved' = NameCall("done", raw, _resolve_csv_player_to_wom_key(raw),
                            <<>>, <<>>)
    /\ UNCHANGED <<now, fetchVars, fileVars, spoonVars, alias_map, raw, norm>>

\* a name and an alias table are given
InitNames ==
    /\ now = 0
    /\ FetchIdle
    /\ file = FileAbsent
    /\ FileIdle
    /\ SpoonIdle
    /\ alias_map \in AliasMaps
    /\ raw \in NameInputs
    /\ norm = NoNorm
    /\ resolved = NoNorm

NextNames ==
    \/ NormalizeName
    \/ \E name \in Respellings(raw) : RespellName(name)
    \/ ResolvePlayer

SpecNames == InitNames /\ [][NextNames]_vars

----------------------------------------------------------------------------
(* Properties of the metric fetcher, checked under SpecFetch *)

Is429(r) == r.kind = "http" /\ r.status = 429

IsTransport(r) == r.kind = "transport"

\* the gains each well-formed body of the model stands for
ExpectedGains(body) ==
    CASE body = BodyGood -> (<<"t", "a">> :> 5) @@ (<<"a", "b">> :> 3)
      [] body = BodyDup -> (<<"a", "b">> :> 7)
      [] body = BodyZero ->
            (<<"t", "a">> :> 0) @@ (<<"a", "b">> :> 0) @@ (<<"1">> :> 0)
      [] OTHER -> EmptyMap

\* a 200 response whose body is JSON with numeric (or absent) gained values
IsSuccess(r) ==
    /\ r.kind = "http"
    /\ r.status = 200
    /\ r.body \in {BodyGood, BodyDup, BodyZero, BodyNoList, BodyScalar}

\* the delay the specification gives for a 429 met on attempt i
SpecDelay(r, i) ==
    IF r.retryAfter.k = "seconds"
    THEN Max(r.retryAfter.v, WOM_BASE_BACKOFF_TENTHS)
    ELSE WOM_BASE_BACKOFF_TENTHS * i

\* C1: when the first WOM_MAX_RETRIES-1 requests are answered 429 and the
\* next one succeeds, the call returns the successful gains with no error,
\* after exactly WOM_MAX_RETRIES requests and one sleep per 429, each of
\* max(Retry-After, base) when the header is a number and base * attempt
\* otherwise.
C1_RateLimitThenSuccess ==
    LET n == Len(f.resps)
    IN (/\ n = WOM_MAX_RETRIES
        /\ \A i \in 1..(n - 1) : Is429(f.resps[i])
        /\ IsSuccess(f.resps[n]))
       => /\ f.status = "returned"
          /\ f.out = FetchValue(ExpectedGains(f.resps[n].body), NoError)
          /\ errors = <<>>
          /\ f.reqs = WOM_MAX_RETRIES
          /\ Len(f.sleeps) = WOM_MAX_RETRIES - 1
          /\ \A i \in 1..(n - 1) : f.sleeps[i] = SpecDelay(f.resps[i], i)

C1_Witness ==
    /\ Len(f.resps) = WOM_MAX_RETRIES
    /\ \A i \in 1..(WOM_MAX_RETRIES - 1) : Is429(f.resps[i])
    /\ f.resps[1].retryAfter = RetryAfterSeconds(10)
    /\ f.resps[2].retryAfter = RetryAfterDate
    /\ f.resps[3].retryAfter = RetryAfterSeconds(30)
    /\ f.resps[4].retryAfter = RetryAfterAbsent
    /\ f.resps[WOM_MAX_RETRIES].body = BodyGood
    /\ f.status = "returned"
    /\ f.sleeps = <<15, 30, 30, 60>>

\* C2: when every request is answered 429 the call goes on for exactly
\* WOM_MAX_RETRIES requests, then returns empty gains and the exhausted-
\* retries error naming metric, startDate and endDate; it never issues a
\* request beyond the cap.
C2_RateLimitExhausted ==
    LET n == Len(f.resps)
    IN /\ f.reqs <= WOM_MAX_RETRIES
       /\ n <= WOM_MAX_RETRIES
       /\ (n >= 1 /\ \A i \in 1..n : Is429(f.resps[i])) =>
             IF n < WOM_MAX_RETRIES
             THEN f.status = "running" /\ pc = "fetching"
             ELSE /\ f.status = "returned"
                  /\ pc = "returned"
                  /\ f.reqs = WOM_MAX_RETRIES
                  /\ f.out.gains = EmptyMap
                  /\ f.out.err.kind = "rate_limited"
                  /\ f.out.err.metric = f.metric
                  /\ f.out.err.startDate = req.startDate
                  /\ f.out.err.endDate = req.endDate

C2_Witness ==
    /\ Len(f.resps) = WOM_MAX_RETRIES
    /\ \A i \in 1..WOM_MAX_RETRIES : Is429(f.resps[i])
    /\ f.status = "returned"
    /\ f.metric = "lunar_chests"

\* C3: a transport failure on attempt k < WOM_MAX_RETRIES is followed by a
\* sleep of base * k and the call goes on to another request; on attempt
\* WOM_MAX_RETRIES it ends the call with empty gains and a terminal error,
\* with no further sleep.
C3_TransportBackoff ==
    \A k \in 1..Len(f.resps) :
        IsTransport(f.resps[k]) =>
            IF k < WOM_MAX_RETRIES
            THEN /\ Len(f.sleeps) >= k
                 /\ f.sleeps[k] = WOM_BASE_BACKOFF_TENTHS * k
                 /\ (Len(f.resps) = k =>
                        f.status = "running" /\ pc = "fetching")
            ELSE /\ f.status = "returned"
                 /\ f.out.gains = EmptyMap
                 /\ f.out.err.kind = "request_failed"
                 /\ Len(f.sleeps) = WOM_MAX_RETRIES - 1

C3_Witness ==
    /\ Len(f.resps) = WOM_MAX_RETRIES
    /\ \A k \in 1..WOM_MAX_RETRIES : IsTransport(f.resps[k])
    /\ f.sleeps = <<15, 30, 45, 60>>
    /\ f.status = "returned"

\* C4: a 404 on any attempt ends the call at once with empty gains and the
\* not-found note: it is the last request, and no sleep follows it.
C4_NotFoundTerminal ==
    \A k \in 1..Len(f.resps) :
        (f.resps[k].kind = "http" /\ f.resps[k].status = 404) =>
            /\ k = Len(f.resps)
            /\ f.status = "returned"
            /\ f.out.gains = EmptyMap
            /\ f.out.err.kind = "not_found"
            /\ f.reqs = k
            /\ Len(f.sleeps) = k - 1

C4_Witness ==
    /\ Len(f.resps) = 3
    /\ Is429(f.resps[1])
    /\ IsTransport(f.resps[2])
    /\ f.resps[3].status = 404
    /\ f.status = "returned"

\* C5: no exception escapes fetch_wom_group_metric, whatever the responses
\* and whatever the gained value of a record.
C5_NoExceptionEscapes == f.status # "raised" /\ pc # "raised"

----------------------------------------------------------------------------
(* Properties of the bundle aggregator and its cache, under SpecBundle *)

ErrorsNaming(m) == {i \in DOMAIN errors : errors[i].metric = m}

\* the fetch of a metric failed: it returned an error or raised
FetchFailed ==
    \/ f.status = "raised"
    \/ f.status = "returned" /\ Truthy(f.out.err)

\* metrics come after the one the last fetch was for
LaterMetricsRemain ==
    \/ f.status = "raised" /\ Len(todo) > 1
    \/ f.status = "returned" /\ todo # <<>>

\* C6: once the bundle call is over every distinct requested metric is
\* either in the bundle with no error entry or absent with exactly one
\* error entry naming it, and a failed fetch never keeps a later metric
\* from being fetched.
C6_PartialFailureIsolation ==
    /\ pc = "returned" =>
          \A m \in MetricSet(req.metrics) :
              \/ m \in DOMAIN kc_by_metric /\ ErrorsNaming(m) = {}
              \/ m \notin DOMAIN kc_by_metric
                    /\ Cardinality(ErrorsNaming(m)) = 1
    /\ (FetchFailed /\ LaterMetricsRemain) => pc = "fetching"

SameTriple(a, b) ==
    /\ a.group = b.group
    /\ a.startDate = b.startDate
    /\ a.endDate = b.endDate

\* the earlier bundle calls: every entry of the log but the current call's
Earlier == 1..(Len(log) - 1)

\* the time of the current bundle call
CallTime == log[Len(log)].at

----------------------------------------------------------------------------
(* Properties of the snapshot file loader, checked under SpecFile *)

\* the file stores gains for metric m
Stores(m) ==
    /\ file.metricsType = "dict"
    /\ m \in DOMAIN file.metrics
    /\ file.metrics[m].isDict

\* the number a stored gained value stands for
StoredGain(g) == IF g.k \in {"num", "numstr"} THEN g.n ELSE 0

NoteKinds == {load.notes[i].kind : i \in DOMAIN load.notes}

NotesOfKind(kind) == {i \in DOMAIN load.notes : load.notes[i].kind = kind}

GroupDiffers == file.group_id # load.args.group

DatesDiffer ==
    file.start_date # load.args.startDate \/ file.end_date # load.args.endDate

\* C8: when the file's recorded group id or date range differs from the
\* requested one the call still returns every requested metric the file
\* stores, with its gains, and adds one mismatch note per kind of mismatch.
C8_SnapshotMismatchTolerance ==
    (/\ load.status # "none"
     /\ file.kind = "json"
     /\ file.top = "object"
     /\ (GroupDiffers \/ DatesDiffer))
    => /\ load.status = "returned"
       /\ \A m \in MetricSet(load.args.metrics) :
             Stores(m) =>
                /\ m \in DOMAIN load.kc
                /\ DOMAIN load.kc[m] = DOMAIN file.metrics[m].map
                /\ \A k \in DOMAIN load.kc[m] :
                      load.kc[m][k] = StoredGain(file.metrics[m].map[k])
       /\ Cardinality(NotesOfKind("group_id_mismatch"))
             = (IF GroupDiffers THEN 1 ELSE 0)
       /\ Cardinality(NotesOfKind("date_range_mismatch"))
             = (IF DatesDiffer THEN 1 ELSE 0)

C8_Witness ==
    /\ load.status = "returned"
    /\ file.kind = "json"
    /\ file.top = "object"
    /\ file.metrics = FileMetricsFull
    /\ GroupDiffers
    /\ DatesDiffer
    /\ DOMAIN load.kc = {"barrows_chests", "lunar_chests"}
    /\ load.kc["lunar_chests"][<<"b">>] = 2
    /\ NoteKinds = {"group_id_mismatch", "date_range_mismatch",
                    "missing_metrics"}

\* C9: load_wom_group_metrics_from_file never raises, whatever the file
\* holds, and for an absent or unparsable file it returns an empty bundle
\* and one diagnostic.
C9_LoadNeverRaises ==
    /\ load.status # "raised"
    /\ (load.status = "returned" /\ file.kind \in {"absent", "unparsable"})
          => load.kc = EmptyMap /\ Len(load.notes) = 1

----------------------------------------------------------------------------
(* Properties of the spooned index, checked under SpecSpoon *)

Built == spoon.status = "returned"

RowsOf(player) == {i \in DOMAIN spoon.rows : spoon.rows[i].Player = player}

\* every distinct player of the data has a row, and every row is a player's
RowPerPlayer ==
    /\ \A p \in UniquePlayers(category_df) : RowsOf(p) # {}
    /\ \A i \in DOMAIN spoon.rows :
          spoon.rows[i].Player \in UniquePlayers(category_df)

\* the points of the data's rows of the player at row i
TotalPoints(i) == PointsSum(category_df, spoon.rows[i].Player)

\* the index is undefined exactly when the KC gain is not above 0
DefinedIffGain ==
    \A i \in DOMAIN spoon.rows :
        spoon.rows[i].SpoonedIndex.defined <=> spoon.rows[i].KCGain > 0

\* C10 as stated: a row for every distinct player; the index is points / KC
\* gain exactly when the KC gain is above 0 and None otherwise, so a defined
\* index of 0 occurs only for zero points with a positive KC gain.
C10_IndexIsQuotient ==
    Built =>
       /\ RowPerPlayer
       /\ DefinedIffGain
       /\ \A i \in DOMAIN spoon.rows :
             spoon.rows[i].SpoonedIndex.defined =>
                /\ spoon.rows[i].SpoonedIndex.milli * spoon.rows[i].KCGain
                      = 1000 * TotalPoints(i)
                /\ spoon.rows[i].SpoonedIndex.milli = 0 => TotalPoints(i) = 0

\* C10, amended: a row for every distinct player; the index is None exactly
\* when the KC gain is not above 0, and otherwise it is points / KC gain
\* rounded to three decimals, so a defined index of 0 occurs only with a
\* positive KC gain and points of at most 0.0005 of that gain.
C10_IndexIsRoundedQuotient ==
    Built =>
       /\ RowPerPlayer
       /\ DefinedIffGain
       /\ \A i \in DOMAIN spoon.rows :
             LET t == spoon.rows[i].SpoonedIndex.milli
                 k == spoon.rows[i].KCGain
                 d == t * k - 1000 * TotalPoints(i)
             IN spoon.rows[i].SpoonedIndex.defined =>
                   /\ 2 * d <= k
                   /\ 2 * (0 - d) <= k
                   /\ t = 0 => 2000 * TotalPoints(i) <= k

C10_Witness ==
    /\ Built
    /\ \E i, j, l \in DOMAIN spoon.rows :
          /\ spoon.rows[i].SpoonedIndex = Index(0)
          /\ TotalPoints(i) > 0
          /\ spoon.rows[j].SpoonedIndex.defined
          /\ spoon.rows[j].SpoonedIndex.milli > 0
          /\ ~spoon.rows[l].SpoonedIndex.defined

\* the rows, cut down to points, KC gain and index
RowFigures == [i \in DOMAIN spoon.rows |-> <<spoon.rows[i].Points, spoon.rows[i].KCGain, spoon.rows[i].SpoonedIndex>>]

\* P1(points 30, kc 10), P3(points 10, kc 5), P2(points 20, kc 0)
ExampleP1 == <<30000, 10000, Index(3000)>>

ExampleP3 == <<10000, 5000, Index(2000)>>

ExampleP2 == <<20000, 0, NoIndex>>

\* C11: every row with a defined index precedes every row with an undefined
\* one, defined rows are in descending index order, rows with equal index
\* (or both undefined) are in descending points order, and Rank is 1, 2,
\* ..., n in that order; the rows P1(30, 10), P2(20, 0), P3(10, 5) come out
\* as P1, P3, P2.
C11_RowsOrderedAndRanked ==
    Built =>
       /\ \A i, j \in DOMAIN spoon.rows :
             LET a == spoon.rows[i]
                 b == spoon.rows[j]
             IN i < j =>
                   /\ b.SpoonedIndex.defined => a.SpoonedIndex.defined
                   /\ (a.SpoonedIndex.defined /\ b.SpoonedIndex.defined)
                         => a.SpoonedIndex.milli >= b.SpoonedIndex.milli
                   /\ a.SpoonedIndex = b.SpoonedIndex => a.Points >= b.Points
       /\ \A i \in DOMAIN spoon.rows : spoon.rows[i].Rank = i
       /\ {RowFigures[i] : i \in DOMAIN spoon.rows} = {ExampleP1, ExampleP2, ExampleP3}
             => RowFigures = <<ExampleP1, ExampleP3, ExampleP2>>

C11_Witness ==
    /\ Built
    /\ RowFigures = <<ExampleP1, ExampleP3, ExampleP2>>
    /\ [i \in DOMAIN spoon.rows |-> spoon.rows[i].Rank] = <<1, 2, 3>>
    /\ [i \in DOMAIN spoon.rows |-> spoon.rows[i].Player] = <<(<<"b", "t">>), <<"a", "-", "b">>, <<"1">>>>

\* the row of a player
RowOf(p) == spoon.rows[CHOOSE i \in DOMAIN spoon.rows : spoon.rows[i].Player = p]

\* the players whose resolved KC gain is 0 and whose points are above 0
Flagged == {p \in UniquePlayers(category_df) : RowOf(p).KCGain = 0 /\ PointsSum(category_df, p) > 0}

MismatchNotes == {i \in DOMAIN spoon.errors : spoon.errors[i].kind = "missing_from_wom"}

\* the players the name-mismatch diagnostics list
Listed == UNION {{spoon.errors[i].players[j] : j \in DOMAIN spoon.errors[i].players} : i \in MismatchNotes}

\* C12: when some player has a resolved KC gain of 0 and points above 0 the
\* notes hold one name-mismatch diagnostic, which lists at most 12 of those
\* players (all of them when they are at most 12) and no other player; when
\* there is none no such diagnostic is produced; a player with zero points
\* and zero KC gain is never listed.
C12_MismatchDiagnostic ==
    Built =>
       /\ Flagged # {} =>
             /\ Cardinality(MismatchNotes) = 1
             /\ \A i \in MismatchNotes : Len(spoon.errors[i].players) = Cardinality(Listed)
             /\ Listed \subseteq Flagged
             /\ Cardinality(Listed) <= 12
             /\ Cardinality(Flagged) <= 12 => Listed = Flagged
             /\ Cardinality(Flagged) > 12 => Cardinality(Listed) = 12
       /\ Flagged = {} => MismatchNotes = {}
       /\ \A i \in DOMAIN spoon.rows :
             (spoon.rows[i].Points = 0 /\ spoon.rows[i].KCGain = 0)
                => spoon.rows[i].Player \notin Listed

C12_Witness ==
    /\ Built
    /\ Cardinality(Flagged) > 12
    /\ Cardinality(Listed) = 12
    /\ \E i, j \in DOMAIN spoon.rows :
          /\ spoon.rows[i].Points = 0
          /\ spoon.rows[i].KCGain = 0
          /\ spoon.rows[j].Points > 0
          /\ spoon.rows[j].KCGain = 0
          /\ spoon.rows[j].Player \notin Listed

\* the gain the bundle holds for a key under a metric, 0 where either is absent
GainIn(m, key) ==
    IF m \in DOMAIN prefetched_kc_by_metric /\ key \in DOMAIN prefetched_kc_by_metric[m]
    THEN prefetched_kc_by_metric[m][key]
    ELSE 0

\* the sum of a key's gains over a set of metrics
RECURSIVE SumOverMetrics(_, _)
SumOverMetrics(S, key) ==
    IF S = {} THEN 0
    ELSE LET m == CHOOSE x \in S : TRUE
         IN GainIn(m, key) + SumOverMetrics(S \ {m}, key)

\* the supported metrics selected for the category
SupportedSelected == MetricSet(selected_boss_metrics) \cap SUPPORTED_WOM_BOSS_METRICS

----------------------------------------------------------------------------
(* Properties of the identity normaliser, checked under SpecNames *)

\* the lowercase letters and digits of the model
KeyChars == {"a", "b", "t", "1"}

\* C14: _normalize_name returns, for every input, None and the empty string
\* included, a key made only of lowercase letters and digits (the empty key
\* for None and the empty string); normalising the key again returns the
\* key; a name that differs only in letter case or whitespace has the same
\* key.
C14_NormalizeIdempotent ==
    norm.status = "done" =>
       /\ \A i \in DOMAIN norm.key : norm.key[i] \in KeyChars
       /\ norm.arg \in {None, <<>>} => norm.key = <<>>
       /\ norm.again = norm.key
       /\ norm.other = norm.key

C14_Witness ==
    /\ norm.status = "done"
    /\ norm.arg = <<"B", "-", "1">>
    /\ raw = <<"b", "-", "1">>
    /\ norm.key = <<"b", "1">>
    /\ norm.other = <<"b", "1">>
    /\ norm.again = <<"b", "1">>

\* the aliases whose source is the stripped name
ExactAliases == {i \in DOMAIN alias_map : alias_map[i].source = Strip(resolved.arg)}

\* the aliases whose source has the normalized form of the name
NormalizedAliases == {i \in DOMAIN alias_map : _normalize_name(alias_map[i].source) = _normalize_name(resolved.arg)}

\* C15: when the raw name is a key of the alias map the result is the
\* normalized target of that entry, even if another source has the same
\* normalized form; when it is not and some source has the normalized form
\* of the name the result is the normalized target of the first such
\* source; when no alias matches it is the normalized name.
C15_ResolveLookupOrder ==
    resolved.status = "done" =>
       /\ \A i \in ExactAliases : resolved.key = _normalize_name(alias_map[i].target)
       /\ (ExactAliases = {} /\ NormalizedAliases # {}) =>
             \E i \in NormalizedAliases :
                /\ \A j \in NormalizedAliases : i <= j
                /\ resolved.key = _normalize_name(alias_map[i].target)
       /\ NormalizedAliases = {} => resolved.key = _normalize_name(resolved.arg)

C15_Witness ==
    /\ resolved.status = "done"
    /\ resolved.arg = NameIronThrage
    /\ ExactAliases = {2}
    /\ NormalizedAliases = {1, 2}
    /\ resolved.key = <<"t", "a">>

----------------------------------------------------------------------------
(* Properties of the reconciliation's identities, checked under SpecSpoon *)

\* no alias overrides the name of the player
NoAliasFor(p) == _resolve_csv_player_to_wom_key(p) = _normalize_name(p)

\* C16: two event-log names with the same normalized key, neither
\* overridden by an alias, are one entity: they are represented by one row,
\* so the KC gain stored under the key is attributed to one row only.
C16_SameKeyOneRow ==
    Built =>
       \A i, j \in DOMAIN spoon.rows :
          (/\ NoAliasFor(spoon.rows[i].Player)
           /\ NoAliasFor(spoon.rows[j].Player)
           /\ _normalize_name(spoon.rows[i].Player) = _normalize_name(spoon.rows[j].Player))
          => i = j

----------------------------------------------------------------------------
(* Properties of the retry loop's resources, checked under SpecRetry *)

FetchEnded == f.status \in {"returned", "raised"}

BundleEnded == pc \in {"returned", "raised"}

\* the bounds on one fetch call and on the bundle call around it
RetryBounds ==
    /\ f.attempt = f.reqs
    /\ f.reqs = Len(f.resps)
    /\ f.reqs <= WOM_MAX_RETRIES
    /\ Len(f.sleeps) <= WOM_MAX_RETRIES - 1
    /\ f.status = "running" => Len(f.sleeps) = f.reqs
    /\ FetchEnded => Len(f.sleeps) = f.reqs - 1
    /\ outbound <= Cardinality(MetricSet(req.metrics)) * WOM_MAX_RETRIES

\* C17: under any mix of 429, transport-failure, other-error and success
\* responses every fetch_wom_group_metric call ends, after at most
\* WOM_MAX_RETRIES requests and WOM_MAX_RETRIES - 1 sleeps, one attempt
\* counter counting every request and no sleep following the last one; a
\* bundle call over n distinct metrics ends after at most
\* n * WOM_MAX_RETRIES requests, issued one at a time.
C17_FetchTerminatesBounded ==
    /\ []RetryBounds
    /\ [][outbound' = 0 \/ outbound' <= outbound + 1]_vars
    /\ (f.status = "running") ~> FetchEnded
    /\ (pc = "fetching") ~> BundleEnded

C17_Witness ==
    /\ pc = "returned"
    /\ Cardinality(MetricSet(req.metrics)) = 2
    /\ outbound = 2 * WOM_MAX_RETRIES
    /\ f.reqs = WOM_MAX_RETRIES
    /\ Len(f.sleeps) = WOM_MAX_RETRIES - 1
    /\ \E i, j \in DOMAIN f.resps : Is429(f.resps[i]) /\ IsTransport(f.resps[j])
    /\ f.resps[WOM_MAX_RETRIES].status = 500

----------------------------------------------------------------------------
(* Other HTTP error statuses, checked under SpecFetch *)

\* an HTTP error status other than 404 and 429
IsOtherHttpError(response) ==
    /\ response.kind = "http"
    /\ response.status >= 400
    /\ response.status \notin {404, 429}

\* C18: an HTTP error status other than 404 and 429 on any attempt, the
\* first included, ends fetch_wom_group_metric at once: the call returns an
\* empty gains map with a "request failed" error, it does not sleep after
\* that response and issues no further request, even when attempts remain.
C18_OtherHttpErrorEndsCall ==
    \A i \in DOMAIN f.resps :
        IsOtherHttpError(f.resps[i]) =>
            /\ i = Len(f.resps)
            /\ f.reqs = i
            /\ f.attempt = i
            /\ f.status = "returned"
            /\ f.out = FetchValue(EmptyMap, RequestFailedError("HTTPError"))
            /\ Len(f.sleeps) = i - 1
            /\ outbound = i
            /\ pc = "returned"

C18_Witness ==
    /\ Len(f.resps) = 3
    /\ Is429(f.resps[1])
    /\ IsTransport(f.resps[2])
    /\ IsOtherHttpError(f.resps[3])
    /\ f.status = "returned"
    /\ f.reqs < WOM_MAX_RETRIES
    /\ Len(f.sleeps) = 2

====
